---- MODULE Spec2Model ----
(***************************************************************************)
(* A model of the cubez example application: the render loop and its frame *)
(* clock (examples/exampleapp.go), the shader loader and the shader        *)
(* location caches, Renderable.Draw and GetTransformMat4, CreateCube, and  *)
(* the per-frame physics update callback of the example's main package.    *)
(*                                                                         *)
(* Each component has its own specification over the same variables; the   *)
(* variables of the other components keep their initial values.            *)
(***************************************************************************)
EXTENDS Integers, Sequences, FiniteSets, TLC

VARIABLES
    \* ---- ExampleApp / RenderLoop
    pc,             \* position of the main goroutine: setup, check, update, render, swap, poll, done
    shouldClose,    \* app.MainWindow.ShouldClose()
    OnUpdate,       \* app.OnUpdate: "nil" or "fn"
    OnRender,       \* app.OnRender: "nil" or "fn"
    now,            \* the monotonic clock read by time.Now()
    lastRenderTime, \* package variable lastRenderTime
    loopTime,       \* local loopTime of the current iteration
    deltaF,         \* local deltaF of the current iteration (seconds, as a fraction)
    iter,           \* number of loop iterations started
    log,            \* events of the current iteration, in order
    calls,          \* how often each callback has been invoked
    args,           \* the delta each callback received last
    samples,        \* every value time.Now() returned to RenderLoop, in order
    deltas,         \* the nanosecond delta computed in each iteration, in order
    closedIter,     \* the iteration during which shouldClose became true (-1: not yet)
    \* ---- shader location caches, Renderable, Draw, CreateCube
    uniCache,       \* package variable uniCache: name -> slot
    attrCache,      \* package variable attrCache: name -> slot
    glQueries,      \* how often gl.Get*Location ran, per <<kind, program, name>>
    lastCall,       \* the last get*Location call and what it returned
    cube,           \* the Renderable
    glBuffers,      \* GL buffer objects: handle -> uploaded data
    glVaos,         \* vertex array objects generated so far
    glLog,          \* the GL commands of the last Draw, in order
    \* ---- LoadShaderProgram
    glShaders,      \* shader objects created so far
    glDeleted,      \* shader objects gl.DeleteShader was called on
    glPrograms,     \* program objects created so far
    lastLoad,       \* what the last LoadShaderProgram call created and returned
    \* ---- updateCallback
    body,           \* cubeCollider.Body: Position and Orientation
    upc,            \* position inside updateCallback
    trace,          \* the calls updateCallback has made in the current frame, in order
    frames          \* number of updateCallback calls started

loopVars   == <<pc, shouldClose, OnUpdate, OnRender, now, lastRenderTime, loopTime,
                deltaF, iter, log, calls, args, samples, deltas, closedIter>>
cacheVars  == <<uniCache, attrCache, glQueries, lastCall>>
drawVars   == <<glBuffers, glVaos, glLog>>
shaderVars == <<glShaders, glDeleted, glPrograms, lastLoad>>
physVars   == <<body, upc, trace, frames>>
notLoop    == <<cube, cacheVars, drawVars, shaderVars, physVars>>
vars == <<loopVars, cacheVars, drawVars, shaderVars, physVars, cube>>

-----------------------------------------------------------------------------
(* Bounds of the model *)

MaxIter == 3        \* loop iterations explored
MaxTime == 4        \* largest clock value (nanoseconds)
MaxStep == 2        \* largest clock advance between two time.Now() calls
MaxCubes == 2       \* CreateCube calls explored
MaxLoads == 4       \* LoadShaderProgram calls explored
MaxFrames == 2      \* updateCallback calls explored
MaxDelta == 1       \* largest frame delta handed to updateCallback
MaxContacts == 2    \* most contacts CheckAgainstHalfSpace returns
MaxCoord == 1       \* size of the Location components tried
MaxScale == 2       \* size of the Scale components tried

-----------------------------------------------------------------------------
(* Small helpers *)

Last(s) == s[Len(s)]

RECURSIVE SumSeq(_)
SumSeq(s) == IF s = <<>> THEN 0 ELSE s[1] + SumSeq(Tail(s))

-----------------------------------------------------------------------------
(* ExampleApp.RenderLoop and the frame clock *)

NanosPerSecond == 1000000000

\* deltaF := float64(deltaNano) * (1.0 / float64(time.Second)): the seconds are
\* kept as the fraction deltaNano / time.Second.
DeltaSeconds(deltaNano) == [num |-> deltaNano, den |-> NanosPerSecond]

NoDelta == [num |-> -1, den |-> 0]

Keys == {"KeyEscape", "KeyW"}
KeyActions == {"Press", "Release"}
NoEvent == [key |-> "none", action |-> "none"]
KeyEvents == {NoEvent} \cup [key : Keys, action : KeyActions]

\* keyCallback: the value of the window's should-close flag after the handler ran
keyCallback(flag, key, action) ==
    IF key = "KeyEscape" /\ action = "Press" THEN TRUE ELSE flag

\* ghost: the iteration during which the flag was first set
NoteClose(flagAfter) ==
    IF closedIter = -1 /\ flagAfter THEN iter ELSE closedIter

InitLoop ==
    /\ pc = "setup"
    /\ shouldClose = FALSE
    /\ OnUpdate = "nil"
    /\ OnRender = "nil"
    /\ now = 0
    /\ lastRenderTime = 0
    /\ loopTime = 0
    /\ deltaF = NoDelta
    /\ iter = 0
    /\ log = <<>>
    /\ calls = [update |-> 0, render |-> 0]
    /\ args = [update |-> NoDelta, render |-> NoDelta]
    /\ samples = <<>>
    /\ deltas = <<>>
    /\ closedIter = -1

\* main: app.OnUpdate = updateCallback
SetOnUpdate ==
    /\ pc = "setup"
    /\ OnUpdate = "nil"
    /\ OnUpdate' = "fn"
    /\ UNCHANGED <<pc, shouldClose, OnRender, now, lastRenderTime, loopTime, deltaF,
                   iter, log, calls, args, samples, deltas, closedIter>>
    /\ UNCHANGED notLoop

\* main: app.OnRender = renderCallback
SetOnRender ==
    /\ pc = "setup"
    /\ OnRender = "nil"
    /\ OnRender' = "fn"
    /\ UNCHANGED <<pc, shouldClose, OnUpdate, now, lastRenderTime, loopTime, deltaF,
                   iter, log, calls, args, samples, deltas, closedIter>>
    /\ UNCHANGED notLoop

\* app.MainWindow.SetShouldClose(true) before the loop is entered
SetShouldClose ==
    /\ pc = "setup"
    /\ ~shouldClose
    /\ shouldClose' = TRUE
    /\ closedIter' = NoteClose(TRUE)
    /\ UNCHANGED <<pc, OnUpdate, OnRender, now, lastRenderTime, loopTime, deltaF,
                   iter, log, calls, args, samples, deltas>>
    /\ UNCHANGED notLoop

\* RenderLoop entry: lastRenderTime = time.Now()
EnterRenderLoop ==
    /\ pc = "setup"
    /\ \E d \in 0..MaxStep :
         /\ now + d <= MaxTime
         /\ now' = now + d
         /\ lastRenderTime' = now + d
         /\ samples' = <<now + d>>
    /\ pc' = "check"
    /\ UNCHANGED <<shouldClose, OnUpdate, OnRender, loopTime, deltaF, iter, log,
                   calls, args, deltas, closedIter>>
    /\ UNCHANGED notLoop

\* for !app.MainWindow.ShouldClose() { loopTime := time.Now(); deltaNano; deltaF
IterBegin ==
    /\ pc = "check"
    /\ ~shouldClose
    /\ iter < MaxIter
    /\ \E d \in 0..MaxStep :
         /\ now + d <= MaxTime
         /\ now' = now + d
         /\ loopTime' = now + d
         /\ deltaF' = DeltaSeconds((now + d) - lastRenderTime)
         /\ samples' = Append(samples, now + d)
         /\ deltas' = Append(deltas, (now + d) - lastRenderTime)
    /\ iter' = iter + 1
    /\ log' = <<>>
    /\ pc' = "update"
    /\ UNCHANGED <<shouldClose, OnUpdate, OnRender, lastRenderTime, calls, args,
                   closedIter>>
    /\ UNCHANGED notLoop

\* the loop condition fails: RenderLoop returns
LoopExit ==
    /\ pc = "check"
    /\ shouldClose
    /\ pc' = "done"
    /\ UNCHANGED <<shouldClose, OnUpdate, OnRender, now, lastRenderTime, loopTime,
                   deltaF, iter, log, calls, args, samples, deltas, closedIter>>
    /\ UNCHANGED notLoop

\* if app.OnUpdate != nil { app.OnUpdate(deltaF) }; the callback may ask the
\* window to close
UpdateStepSkipsRender ==
    /\ pc = "update"
    /\ IF OnUpdate # "nil"
         THEN /\ log' = Append(log, "update")
              /\ calls' = [calls EXCEPT !.update = @ + 1]
              /\ args' = [args EXCEPT !.update = deltaF]
              /\ \E close \in BOOLEAN :
                   /\ shouldClose' = (shouldClose \/ close)
                   /\ closedIter' = NoteClose(shouldClose \/ close)
         ELSE UNCHANGED <<log, calls, args, shouldClose, closedIter>>
    /\ pc' = "swap"
    /\ UNCHANGED <<OnUpdate, OnRender, now, lastRenderTime, loopTime, deltaF, iter,
                   samples, deltas>>
    /\ UNCHANGED notLoop

UpdateStep ==
    /\ pc = "update"
    /\ IF OnUpdate # "nil"
         THEN /\ log' = Append(log, "update")
              /\ calls' = [calls EXCEPT !.update = @ + 1]
              /\ args' = [args EXCEPT !.update = deltaF]
              /\ \E close \in BOOLEAN :
                   /\ shouldClose' = (shouldClose \/ close)
                   /\ closedIter' = NoteClose(shouldClose \/ close)
         ELSE UNCHANGED <<log, calls, args, shouldClose, closedIter>>
    /\ pc' = "render"
    /\ UNCHANGED <<OnUpdate, OnRender, now, lastRenderTime, loopTime, deltaF, iter,
                   samples, deltas>>
    /\ UNCHANGED notLoop

\* if app.OnRender != nil { app.OnRender(deltaF) }
RenderGuardStopsOnClose == OnRender # "nil" /\ ~shouldClose

RenderGuard == OnRender # "nil"

RenderStep ==
    /\ pc = "render"
    /\ IF RenderGuard
         THEN /\ log' = Append(log, "render")
              /\ calls' = [calls EXCEPT !.render = @ + 1]
              /\ args' = [args EXCEPT !.render = deltaF]
              /\ \E close \in BOOLEAN :
                   /\ shouldClose' = (shouldClose \/ close)
                   /\ closedIter' = NoteClose(shouldClose \/ close)
         ELSE UNCHANGED <<log, calls, args, shouldClose, closedIter>>
    /\ pc' = "swap"
    /\ UNCHANGED <<OnUpdate, OnRender, now, lastRenderTime, loopTime, deltaF, iter,
                   samples, deltas>>
    /\ UNCHANGED notLoop

\* app.MainWindow.SwapBuffers()
SwapBuffers ==
    /\ pc = "swap"
    /\ log' = Append(log, "swap")
    /\ pc' = "poll"
    /\ UNCHANGED <<shouldClose, OnUpdate, OnRender, now, lastRenderTime, loopTime,
                   deltaF, iter, calls, args, samples, deltas, closedIter>>
    /\ UNCHANGED notLoop

\* lastRenderTime = loopTime
StoredSampleKeepsFirst == lastRenderTime

StoredSample == loopTime

\* glfw.PollEvents() runs keyCallback for a pending key event; then the last
\* statement of the loop body stores the iteration's sample
PollEvents ==
    /\ pc = "poll"
    /\ log' = Append(log, "poll")
    /\ \E e \in KeyEvents :
         LET flag == IF e = NoEvent THEN shouldClose
                     ELSE keyCallback(shouldClose, e.key, e.action)
         IN /\ shouldClose' = flag
            /\ closedIter' = NoteClose(flag)
    /\ lastRenderTime' = StoredSample
    /\ pc' = "check"
    /\ UNCHANGED <<OnUpdate, OnRender, now, loopTime, deltaF, iter, calls, args,
                   samples, deltas>>
    /\ UNCHANGED notLoop

NextLoop ==
    \/ SetOnUpdate
    \/ SetOnRender
    \/ SetShouldClose
    \/ EnterRenderLoop
    \/ IterBegin
    \/ LoopExit
    \/ UpdateStep
    \/ RenderStep
    \/ SwapBuffers
    \/ PollEvents

-----------------------------------------------------------------------------
(* The mathgl operations GetTransformMat4 and Draw call.  A Mat4 is kept as *)
(* its rows: m[i][j] is row i, column j.                                    *)

Ident4 == <<<<1, 0, 0, 0>>, <<0, 1, 0, 0>>, <<0, 0, 1, 0>>, <<0, 0, 0, 1>>>>

\* Mat4.Mul4
MulEntry(a, b, i, j) ==
    a[i][1] * b[1][j] + a[i][2] * b[2][j] + a[i][3] * b[3][j] + a[i][4] * b[4][j]

MulRow(a, b, i) ==
    <<MulEntry(a, b, i, 1), MulEntry(a, b, i, 2), MulEntry(a, b, i, 3), MulEntry(a, b, i, 4)>>

Mul4(a, b) == <<MulRow(a, b, 1), MulRow(a, b, 2), MulRow(a, b, 3), MulRow(a, b, 4)>>

\* mgl.Scale3D
Scale3D(x, y, z) ==
    <<<<x, 0, 0, 0>>, <<0, y, 0, 0>>, <<0, 0, z, 0>>, <<0, 0, 0, 1>>>>

\* mgl.Translate3D: the translation is the fourth column
Translate3D(x, y, z) ==
    <<<<1, 0, 0, x>>, <<0, 1, 0, y>>, <<0, 0, 1, z>>, <<0, 0, 0, 1>>>>

\* Quat.Mat4
QuatMat4(q) ==
    LET w == q.W
        x == q.V[1]
        y == q.V[2]
        z == q.V[3]
    IN <<<<1 - 2*y*y - 2*z*z, 2*x*y - 2*w*z,     2*x*z + 2*w*y,     0>>,
         <<2*x*y + 2*w*z,     1 - 2*x*x - 2*z*z, 2*y*z - 2*w*x,     0>>,
         <<2*x*z - 2*w*y,     2*y*z + 2*w*x,     1 - 2*x*x - 2*y*y, 0>>,
         <<0,                 0,                 0,                 1>>>>

\* the zero value of mgl.Quat, which new(Renderable) leaves in both rotations
QuatZero == [W |-> 0, V |-> <<0, 0, 0>>]

\* mgl.QuatIdent()
QuatIdent == [W |-> 1, V |-> <<0, 0, 0>>]

-----------------------------------------------------------------------------
(* Renderable *)

\* NewRenderable: new(Renderable) with Scale set to (1, 1, 1)
NewRenderable ==
    [Shader |-> 0, Tex0 |-> 0, Color |-> <<0, 0, 0, 0>>,
     Vao |-> 0, VertVBO |-> 0, UvVBO |-> 0, NormsVBO |-> 0, ElementsVBO |-> 0,
     FaceCount |-> 0,
     Scale |-> <<1, 1, 1>>, Location |-> <<0, 0, 0>>,
     Rotation |-> QuatZero, LocalRotation |-> QuatZero]

\* Renderable.GetTransformMat4 with the factors in another order
TransformTranslateFirst(r) ==
    LET scaleMat    == Scale3D(r.Scale[1], r.Scale[2], r.Scale[3])
        transMat    == Translate3D(r.Location[1], r.Location[2], r.Location[3])
        localRotMat == QuatMat4(r.LocalRotation)
        rotMat      == QuatMat4(r.Rotation)
    IN Mul4(Mul4(Mul4(transMat, rotMat), localRotMat), scaleMat)

\* Renderable.GetTransformMat4
GetTransformMat4(r) ==
    LET scaleMat    == Scale3D(r.Scale[1], r.Scale[2], r.Scale[3])
        transMat    == Translate3D(r.Location[1], r.Location[2], r.Location[3])
        localRotMat == QuatMat4(r.LocalRotation)
        rotMat      == QuatMat4(r.Rotation)
    IN Mul4(Mul4(Mul4(rotMat, transMat), localRotMat), scaleMat)

-----------------------------------------------------------------------------
(* The GL driver's view of the shader programs.  A program handle p declares *)
(* the name with index i iff bit i of p is set, so the handles 0..31 cover   *)
(* every subset of the five names Draw asks for; the slot the driver gives a *)
(* declared name depends on the program.                                     *)

NumPrograms == 32
NumSlots == 3

Programs == 0..(NumPrograms - 1)

UniformNames == {"MVP_MATRIX", "DIFFUSE_TEX", "DIFFUSE_COLOR"}
AttribNames == {"VERTEX_POSITION", "VERTEX_UV_0"}

NameBit(name) ==
    CASE name = "MVP_MATRIX" -> 1
      [] name = "DIFFUSE_TEX" -> 2
      [] name = "DIFFUSE_COLOR" -> 4
      [] name = "VERTEX_POSITION" -> 8
      [] name = "VERTEX_UV_0" -> 16

NameIndex(name) ==
    CASE name = "MVP_MATRIX" -> 0
      [] name = "DIFFUSE_TEX" -> 1
      [] name = "DIFFUSE_COLOR" -> 2
      [] name = "VERTEX_POSITION" -> 0
      [] name = "VERTEX_UV_0" -> 1

Declares(prog, name) == (prog \div NameBit(name)) % 2 = 1

\* gl.GetUniformLocation: -1 for a name the program does not declare
GLGetUniformLocation(prog, name) ==
    IF name \in UniformNames /\ Declares(prog, name)
      THEN (NameIndex(name) + prog) % NumSlots
      ELSE -1

\* gl.GetAttribLocation
GLGetAttribLocation(prog, name) ==
    IF name \in AttribNames /\ Declares(prog, name)
      THEN (NameIndex(name) + prog) % NumSlots
      ELSE -1

-----------------------------------------------------------------------------
(* getUniformLocation / getAttribLocation and their caches *)

Put(cache, name, slot) ==
    [n \in DOMAIN cache \cup {name} |-> IF n = name THEN slot ELSE cache[n]]

Count(q, key) == IF key \in DOMAIN q THEN q[key] ELSE 0

Bump(q, key) ==
    [k \in DOMAIN q \cup {key} |-> IF k = key THEN Count(q, key) + 1 ELSE q[k]]

\* getUniformLocation(prog, name) on the cache `cache`: the slot returned, the
\* cache afterwards, and whether the driver was asked
getUniformLocation(cache, prog, name) ==
    IF name \in DOMAIN cache
      THEN [slot |-> cache[name], cache |-> cache, queried |-> FALSE]
      ELSE LET ul == GLGetUniformLocation(prog, name)
           IN [slot |-> ul, cache |-> Put(cache, name, ul), queried |-> TRUE]

\* getAttribLocation(prog, name)
getAttribLocation(cache, prog, name) ==
    IF name \in DOMAIN cache
      THEN [slot |-> cache[name], cache |-> cache, queried |-> FALSE]
      ELSE LET al == GLGetAttribLocation(prog, name)
           IN [slot |-> al, cache |-> Put(cache, name, al), queried |-> TRUE]

NoCall == [kind |-> "none", prog |-> 0, name |-> "", slot |-> -1, queried |-> FALSE]

InitCache ==
    /\ uniCache = <<>>
    /\ attrCache = <<>>
    /\ glQueries = <<>>
    /\ lastCall = NoCall

\* a call of getUniformLocation(prog, name)
CallGetUniformLocation(prog, name) ==
    LET got == getUniformLocation(uniCache, prog, name)
    IN /\ uniCache' = got.cache
       /\ glQueries' = IF got.queried THEN Bump(glQueries, <<"uniform", prog, name>>)
                       ELSE glQueries
       /\ lastCall' = [kind |-> "uniform", prog |-> prog, name |-> name,
                       slot |-> got.slot, queried |-> got.queried]
       /\ UNCHANGED <<attrCache, cube, loopVars, drawVars, shaderVars, physVars>>

\* a call of getAttribLocation(prog, name)
CallGetAttribLocation(prog, name) ==
    LET got == getAttribLocation(attrCache, prog, name)
    IN /\ attrCache' = got.cache
       /\ glQueries' = IF got.queried THEN Bump(glQueries, <<"attrib", prog, name>>)
                       ELSE glQueries
       /\ lastCall' = [kind |-> "attrib", prog |-> prog, name |-> name,
                       slot |-> got.slot, queried |-> got.queried]
       /\ UNCHANGED <<uniCache, cube, loopVars, drawVars, shaderVars, physVars>>

-----------------------------------------------------------------------------
(* CreateCube *)

\* verts := [...]float32{...}
CubeVerts(xmin, ymin, zmin, xmax, ymax, zmax) ==
    <<xmax, ymax, zmax, xmin, ymax, zmax, xmin, ymin, zmax, xmax, ymin, zmax,
      xmax, ymax, zmin, xmax, ymax, zmax, xmax, ymin, zmax, xmax, ymin, zmin,
      xmax, ymax, zmin, xmin, ymax, zmin, xmin, ymax, zmax, xmax, ymax, zmax,
      xmin, ymax, zmax, xmin, ymax, zmin, xmin, ymin, zmin, xmin, ymin, zmax,
      xmax, ymin, zmax, xmin, ymin, zmax, xmin, ymin, zmin, xmax, ymin, zmin,
      xmin, ymax, zmin, xmax, ymax, zmin, xmax, ymin, zmin, xmin, ymin, zmin>>

\* indexes written one-based
CubeIndexesOneBased ==
    <<1, 2, 3, 3, 4, 1,
      5, 6, 7, 7, 8, 5,
      9, 10, 11, 11, 12, 9,
      13, 14, 15, 15, 16, 13,
      17, 18, 19, 19, 20, 17,
      21, 22, 23, 23, 24, 21>>

\* indexes := [...]uint32{...}
CubeIndexes ==
    <<0, 1, 2, 2, 3, 0,
      4, 5, 6, 6, 7, 4,
      8, 9, 10, 10, 11, 8,
      12, 13, 14, 14, 15, 12,
      16, 17, 18, 18, 19, 16,
      20, 21, 22, 22, 23, 20>>

\* uvs := [...]float32{...}
CubeUvs ==
    <<1, 1, 0, 1, 0, 0, 1, 0,
      1, 1, 0, 1, 0, 0, 1, 0,
      1, 1, 0, 1, 0, 0, 1, 0,
      1, 1, 0, 1, 0, 0, 1, 0,
      1, 1, 0, 1, 0, 0, 1, 0,
      1, 1, 0, 1, 0, 0, 1, 0>>

\* normals := [...]float32{...}
CubeNormals ==
    <<0, 0, 1, 0, 0, 1, 0, 0, 1, 0, 0, 1,
      1, 0, 0, 1, 0, 0, 1, 0, 0, 1, 0, 0,
      0, 1, 0, 0, 1, 0, 0, 1, 0, 0, 1, 0,
      -1, 0, 0, -1, 0, 0, -1, 0, 0, -1, 0, 0,
      0, -1, 0, 0, -1, 0, 0, -1, 0, 0, -1, 0,
      0, 0, -1, 0, 0, -1, 0, 0, -1, 0, 0, -1>>

\* r.FaceCount = 12
CubeFaceCount == 12

\* const floatSize = 4; const uintSize = 4
floatSize == 4
uintSize == 4

\* gl.GenBuffers / gl.GenVertexArrays hand out the next unused name
NextBuffer(buffers, k) == Cardinality(DOMAIN buffers) + k
NextVao(vaos) == Cardinality(vaos) + 1

\* gl.BufferData(target, size, data, gl.STATIC_DRAW)
BufferData(target, size, data) ==
    [target |-> target, size |-> size, data |-> data, usage |-> "STATIC_DRAW"]

\* CreateCube(xmin, ymin, zmin, xmax, ymax, zmax) with the GL objects `buffers`
\* and `vaos` in place: the Renderable returned and the GL objects afterwards
CreateCube(xmin, ymin, zmin, xmax, ymax, zmax, buffers, vaos) ==
    LET verts   == CubeVerts(xmin, ymin, zmin, xmax, ymax, zmax)
        indexes == CubeIndexes
        uvs     == CubeUvs
        normals == CubeNormals
        r == [NewRenderable EXCEPT
                !.Vao = NextVao(vaos),
                !.FaceCount = CubeFaceCount,
                !.VertVBO = NextBuffer(buffers, 1),
                !.UvVBO = NextBuffer(buffers, 2),
                !.NormsVBO = NextBuffer(buffers, 3),
                !.ElementsVBO = NextBuffer(buffers, 4)]
    IN [r |-> r,
        vaos |-> vaos \cup {r.Vao},
        buffers |->
            [h \in DOMAIN buffers \cup {r.VertVBO, r.UvVBO, r.NormsVBO, r.ElementsVBO} |->
               CASE h = r.VertVBO ->
                      BufferData("ARRAY_BUFFER", floatSize * Len(verts), verts)
                 [] h = r.UvVBO ->
                      BufferData("ARRAY_BUFFER", floatSize * Len(uvs), uvs)
                 [] h = r.NormsVBO ->
                      BufferData("ARRAY_BUFFER", floatSize * Len(normals), normals)
                 [] h = r.ElementsVBO ->
                      BufferData("ELEMENT_ARRAY_BUFFER", uintSize * Len(indexes), indexes)
                 [] OTHER -> buffers[h]]]

\* cube = CreateCube(xmin, ymin, zmin, xmax, ymax, zmax)
CallCreateCube(xmin, ymin, zmin, xmax, ymax, zmax) ==
    LET made == CreateCube(xmin, ymin, zmin, xmax, ymax, zmax, glBuffers, glVaos)
    IN /\ Cardinality(glVaos) < MaxCubes
       /\ glVaos' = made.vaos
       /\ glBuffers' = made.buffers
       /\ cube' = made.r
       /\ UNCHANGED <<glLog, loopVars, cacheVars, shaderVars, physVars>>

-----------------------------------------------------------------------------
(* Renderable.Draw *)

\* int32(x): x itself when it fits, otherwise wrapped around once
Int32Max == 2147483647

Int32(x) ==
    IF x > Int32Max THEN ((x - Int32Max) - 1) + ((-Int32Max) - 1)
    ELSE IF x < (-Int32Max) - 1 THEN ((x + Int32Max) + 1) + Int32Max + 1
    ELSE x

Cmd(op, a) == [op |-> op, args |-> a]

\* the guard in front of every upload and bind, off by one
SlotGuardPositive(slot) == slot > 0

\* if slot >= 0 { ... }
SlotGuard(slot) == slot >= 0

NoDraw == [r |-> NewRenderable, cmds |-> <<>>]

\* r.Draw(perspective, view) for the Renderable in cube
Draw(perspective, view) ==
    LET r  == cube
        model == GetTransformMat4(r)
        shaderMvp      == getUniformLocation(uniCache, r.Shader, "MVP_MATRIX")
        shaderTex0     == getUniformLocation(shaderMvp.cache, r.Shader, "DIFFUSE_TEX")
        shaderColor    == getUniformLocation(shaderTex0.cache, r.Shader, "DIFFUSE_COLOR")
        shaderPosition == getAttribLocation(attrCache, r.Shader, "VERTEX_POSITION")
        shaderVertUv   == getAttribLocation(shaderPosition.cache, r.Shader, "VERTEX_UV_0")
        mvp == Mul4(Mul4(perspective, view), model)
        q1 == IF shaderMvp.queried
                THEN Bump(glQueries, <<"uniform", r.Shader, "MVP_MATRIX">>) ELSE glQueries
        q2 == IF shaderTex0.queried
                THEN Bump(q1, <<"uniform", r.Shader, "DIFFUSE_TEX">>) ELSE q1
        q3 == IF shaderColor.queried
                THEN Bump(q2, <<"uniform", r.Shader, "DIFFUSE_COLOR">>) ELSE q2
        q4 == IF shaderPosition.queried
                THEN Bump(q3, <<"attrib", r.Shader, "VERTEX_POSITION">>) ELSE q3
        q5 == IF shaderVertUv.queried
                THEN Bump(q4, <<"attrib", r.Shader, "VERTEX_UV_0">>) ELSE q4
        cmds ==
            <<Cmd("UseProgram", <<r.Shader>>), Cmd("BindVertexArray", <<r.Vao>>)>>
            \o (IF SlotGuard(shaderMvp.slot)
                  THEN <<Cmd("UniformMatrix4fv", <<shaderMvp.slot, mvp>>)>>
                  ELSE <<>>)
            \o (IF SlotGuard(shaderTex0.slot)
                  THEN <<Cmd("ActiveTexture", <<"TEXTURE0">>),
                         Cmd("BindTexture", <<"TEXTURE_2D", r.Tex0>>),
                         Cmd("Uniform1i", <<shaderTex0.slot, 0>>)>>
                  ELSE <<>>)
            \o (IF SlotGuard(shaderColor.slot)
                  THEN <<Cmd("Uniform4f", <<shaderColor.slot, r.Color>>)>>
                  ELSE <<>>)
            \o (IF SlotGuard(shaderPosition.slot)
                  THEN <<Cmd("BindBuffer", <<"ARRAY_BUFFER", r.VertVBO>>),
                         Cmd("EnableVertexAttribArray", <<shaderPosition.slot>>),
                         Cmd("VertexAttribPointer", <<shaderPosition.slot, 3>>)>>
                  ELSE <<>>)
            \o (IF SlotGuard(shaderVertUv.slot)
                  THEN <<Cmd("BindBuffer", <<"ARRAY_BUFFER", r.UvVBO>>),
                         Cmd("EnableVertexAttribArray", <<shaderVertUv.slot>>),
                         Cmd("VertexAttribPointer", <<shaderVertUv.slot, 2>>)>>
                  ELSE <<>>)
            \o <<Cmd("BindBuffer", <<"ELEMENT_ARRAY_BUFFER", r.ElementsVBO>>),
                 Cmd("DrawElements", <<"TRIANGLES", Int32(r.FaceCount * 3)>>),
                 Cmd("BindVertexArray", <<0>>)>>
    IN /\ uniCache' = shaderColor.cache
       /\ attrCache' = shaderVertUv.cache
       /\ glQueries' = q5
       /\ lastCall' = [kind |-> "attrib", prog |-> r.Shader, name |-> "VERTEX_UV_0",
                       slot |-> shaderVertUv.slot, queried |-> shaderVertUv.queried]
       /\ glLog' = [r |-> r, cmds |-> cmds]
       /\ UNCHANGED <<cube, glBuffers, glVaos, loopVars, shaderVars, physVars>>

\* main: cube.Shader = colorShader
SetShader(prog) ==
    /\ cube.Shader # prog
    /\ cube' = [cube EXCEPT !.Shader = prog]
    /\ UNCHANGED <<loopVars, cacheVars, drawVars, shaderVars, physVars>>

InitDraw ==
    /\ cube = NewRenderable
    /\ glBuffers = <<>>
    /\ glVaos = {}
    /\ glLog = NoDraw

-----------------------------------------------------------------------------
(* Assignments to the Renderable's transform fields *)

LocationValues ==
    {<<0, 0, 0>>, <<MaxCoord, 0, 0>>, <<0, -MaxCoord, MaxCoord + 1>>}

ScaleValues == {<<1, 1, 1>>, <<MaxScale, 1, MaxScale + 1>>}

\* the zero Quat, the identity, half turns about x and y, and a Quat that is
\* not normalised
QuatValues ==
    {QuatZero, QuatIdent, [W |-> 0, V |-> <<1, 0, 0>>], [W |-> 0, V |-> <<0, 1, 0>>],
     [W |-> 1, V |-> <<0, 0, 1>>]}

RotationValues == {QuatZero, QuatIdent, [W |-> 1, V |-> <<0, 0, 1>>]}

SetLocation(v) ==
    /\ cube.Location # v
    /\ cube' = [cube EXCEPT !.Location = v]
    /\ UNCHANGED <<loopVars, cacheVars, drawVars, shaderVars, physVars>>

SetScale(v) ==
    /\ cube.Scale # v
    /\ cube' = [cube EXCEPT !.Scale = v]
    /\ UNCHANGED <<loopVars, cacheVars, drawVars, shaderVars, physVars>>

SetRotation(q) ==
    /\ cube.Rotation # q
    /\ cube' = [cube EXCEPT !.Rotation = q]
    /\ UNCHANGED <<loopVars, cacheVars, drawVars, shaderVars, physVars>>

SetLocalRotation(q) ==
    /\ cube.LocalRotation # q
    /\ cube' = [cube EXCEPT !.LocalRotation = q]
    /\ UNCHANGED <<loopVars, cacheVars, drawVars, shaderVars, physVars>>

-----------------------------------------------------------------------------
(* LoadShaderProgram *)

NextProgram == Cardinality(glPrograms) + 1
NextShader(k) == Cardinality(glShaders) + k

\* LoadShaderProgram(vertShader, fragShader), given whether each stage compiles
\* and whether the program links: the objects it creates, the deferred
\* gl.DeleteShader calls that run when it returns, and what it returns
LoadShaderProgram(vertOK, fragOK, linkOK) ==
    LET prog == NextProgram
        vs   == NextShader(1)
        fs   == NextShader(2)
    IN IF ~vertOK
         THEN [created |-> prog, shaders |-> {vs}, deferred |-> <<>>,
               prog |-> 0, err |-> "Failed to compile the vertex shader!"]
       ELSE IF ~fragOK
         THEN [created |-> prog, shaders |-> {vs, fs}, deferred |-> <<vs>>,
               prog |-> 0, err |-> "Failed to compile the fragment shader!"]
       ELSE IF ~linkOK
         THEN [created |-> prog, shaders |-> {vs, fs}, deferred |-> <<fs, vs>>,
               prog |-> 0, err |-> "Failed to link the program!"]
       ELSE [created |-> prog, shaders |-> {vs, fs}, deferred |-> <<fs, vs>>,
             prog |-> prog, err |-> "nil"]

NoLoad == [created |-> 0, shaders |-> {}, deferred |-> <<>>, prog |-> 0, err |-> "none"]

InitShader ==
    /\ glShaders = {}
    /\ glDeleted = {}
    /\ glPrograms = {}
    /\ lastLoad = NoLoad

\* a call of LoadShaderProgram
LoadShader ==
    /\ Cardinality(glPrograms) < MaxLoads
    /\ \E vertOK \in BOOLEAN, fragOK \in BOOLEAN, linkOK \in BOOLEAN :
         LET res == LoadShaderProgram(vertOK, fragOK, linkOK)
         IN /\ glPrograms' = glPrograms \cup {res.created}
            /\ glShaders' = glShaders \cup res.shaders
            /\ glDeleted' = glDeleted \cup {res.deferred[i] : i \in 1..Len(res.deferred)}
            /\ lastLoad' = res
    /\ UNCHANGED <<cube, loopVars, cacheVars, drawVars, physVars>>

-----------------------------------------------------------------------------
(* updateCallback: updateObjects, generateContacts, cubez.ResolveContacts *)

\* float32(x) of a Real: a Real carries one bit more than a float32, so the odd
\* values round to the neighbour whose last float32 bit is zero
Float32(x) ==
    IF x % 2 = 0 THEN x
    ELSE IF ((x - 1) \div 2) % 2 = 0 THEN x - 1 ELSE x + 1

StartHeight == 4

BodyPositions == {<<0, h, 0>> : h \in 0..StartHeight} \cup {<<1, 3, -1>>}

BodyOrientations == {<<1, 0, 0, 0>>, <<3, 0, 1, 0>>}

Ev(op, a, ret) == [op |-> op, args |-> a, ret |-> ret]

\* the body updateObjects copies from: the one before Integrate ran
CopiedBodyStale(before, after) == before

\* the body updateObjects copies from: the one Integrate left
CopiedBody(before, after) == after

\* len(contacts)*8
ResolveBudget(n) == n * 8

InitPhys ==
    /\ body = [Position |-> <<0, StartHeight, 0>>, Orientation |-> <<1, 0, 0, 0>>]
    /\ upc = "setup"
    /\ trace = <<>>
    /\ frames = 0

\* main: cube = CreateCube(...); cube.Shader = colorShader; cube.Color = red
MainSetup ==
    /\ upc = "setup"
    /\ upc' = "idle"
    /\ cube' = [NewRenderable EXCEPT !.Shader = 1, !.Color = <<1, 0, 0, 1>>,
                                     !.FaceCount = CubeFaceCount]
    /\ UNCHANGED <<body, trace, frames, loopVars, cacheVars, drawVars, shaderVars>>

\* updateCallback(delta) up to the return of updateObjects(delta)
UpdateObjects ==
    /\ upc = "idle"
    /\ frames < MaxFrames
    /\ \E delta \in 0..MaxDelta, pos \in BodyPositions, ori \in BodyOrientations :
         LET integrated == [Position |-> pos, Orientation |-> ori]
             from == CopiedBody(body, integrated)
             loc == <<Float32(from.Position[1]), Float32(from.Position[2]),
                      Float32(from.Position[3])>>
             rot == [W |-> Float32(from.Orientation[1]),
                     V |-> <<Float32(from.Orientation[2]), Float32(from.Orientation[3]),
                             Float32(from.Orientation[4])>>]
         IN /\ body' = integrated
            /\ cube' = [cube EXCEPT !.Location = loc, !.LocalRotation = rot]
            /\ trace' = <<Ev("Integrate", <<delta>>, pos \o ori),
                          Ev("CalculateDerivedData", <<>>, <<>>),
                          Ev("CopyTransform", <<>>, loc \o <<rot.W>> \o rot.V)>>
    /\ frames' = frames + 1
    /\ upc' = "contacts"
    /\ UNCHANGED <<loopVars, cacheVars, drawVars, shaderVars>>

\* generateContacts(delta): the ground plane and CheckAgainstHalfSpace
GenerateContacts ==
    /\ upc = "contacts"
    /\ \E found \in {0, 1}, n \in 0..MaxContacts :
         trace' = Append(trace, Ev("CheckAgainstHalfSpace", <<0, 1, 0, 0>>, <<found, n>>))
    /\ upc' = "resolve"
    /\ UNCHANGED <<body, frames, cube, loopVars, cacheVars, drawVars, shaderVars>>

\* if foundContacts { cubez.ResolveContacts(len(contacts)*8, contacts, delta) }
ResolveContacts ==
    /\ upc = "resolve"
    /\ LET check == Last(trace)
           delta == trace[1].args[1]
       IN IF check.ret[1] = 1
            THEN /\ trace' = Append(trace,
                        Ev("ResolveContacts",
                           <<ResolveBudget(check.ret[2]), check.ret[2], delta>>, <<>>))
                 /\ \E pos \in BodyPositions : body' = [body EXCEPT !.Position = pos]
            ELSE UNCHANGED <<trace, body>>
    /\ upc' = "idle"
    /\ UNCHANGED <<frames, cube, loopVars, cacheVars, drawVars, shaderVars>>

-----------------------------------------------------------------------------
(* Specifications *)

Init == InitLoop /\ InitCache /\ InitDraw /\ InitShader /\ InitPhys

\* the render loop
Spec == Init /\ [][NextLoop]_vars

\* the main goroutine keeps running: a step that can be taken is taken
SpecLoopFair == Init /\ [][NextLoop]_vars /\ WF_vars(NextLoop)

\* the location caches, with three programs that share names
CachePrograms == {31, 21, 10}
LookupUniform == \E p \in CachePrograms, n \in UniformNames : CallGetUniformLocation(p, n)
LookupAttrib == \E p \in CachePrograms, n \in AttribNames : CallGetAttribLocation(p, n)
SpecCache == Init /\ [][LookupUniform \/ LookupAttrib]_vars

\* LoadShaderProgram
SpecShader == Init /\ [][LoadShader]_vars

\* Draw with every program, starting where main has created its cube and given
\* it a color
ViewValues == {Ident4, Translate3D(0, 0, -5)}
MainCube == CreateCube(-1, -1, -1, 1, 1, 1, <<>>, {})
InitMain ==
    /\ InitLoop /\ InitCache /\ InitShader /\ InitPhys
    /\ cube = [MainCube.r EXCEPT !.Color = <<1, 0, 0, 1>>]
    /\ glBuffers = MainCube.buffers
    /\ glVaos = MainCube.vaos
    /\ glLog = NoDraw
UseShader == \E p \in Programs : SetShader(p)
DrawCube == \E view \in ViewValues : Draw(Scale3D(2, 2, 1), view)
SpecDraw == InitMain /\ [][UseShader \/ DrawCube]_vars

\* CreateCube with several corner pairs
MinCorners == {<<-1, -1, -1>>, <<0, 0, 0>>, <<2, 0, -3>>}
MaxCorners == {<<1, 1, 1>>, <<0, 0, 0>>, <<-2, 5, 4>>}
AnyCube ==
    \E lo \in MinCorners, hi \in MaxCorners :
        CallCreateCube(lo[1], lo[2], lo[3], hi[1], hi[2], hi[3])
DrawPlain == Draw(Ident4, Ident4)
SpecCube == Init /\ [][AnyCube \/ DrawPlain]_vars

\* the transform of a Renderable drawn with the example's color shader
ColorShader == 13
Relocate == \E v \in LocationValues : SetLocation(v)
Rescale == \E v \in ScaleValues : SetScale(v)
Rotate == \E q \in RotationValues : SetRotation(q)
RotateLocal == \E q \in QuatValues : SetLocalRotation(q)
UseColorShader == SetShader(ColorShader)
SpecTransform ==
    Init /\ [][Relocate \/ Rescale \/ Rotate \/ RotateLocal \/ UseColorShader \/ DrawPlain]_vars

\* updateCallback
SpecUpdate == Init /\ [][MainSetup \/ UpdateObjects \/ GenerateContacts \/ ResolveContacts]_vars

-----------------------------------------------------------------------------
(* Properties of the location caches (SpecCache) *)

\* C1: a lookup returns the slot the driver gives the name in the program the
\* lookup was made for, whatever was looked up for other programs before.
C1_LookupReturnsOwnSlot ==
    /\ lastCall.kind = "uniform" =>
         lastCall.slot = GLGetUniformLocation(lastCall.prog, lastCall.name)
    /\ lastCall.kind = "attrib" =>
         lastCall.slot = GLGetAttribLocation(lastCall.prog, lastCall.name)

\* C3: the driver is asked at most once per (program, name); a call that finds
\* the name cached returns the cached slot without asking; and a name the
\* program does not declare yields -1.
C3_QueriedOnceAbsentIsMinusOne ==
    /\ \A key \in DOMAIN glQueries : glQueries[key] <= 1
    /\ lastCall.kind = "uniform" =>
         lastCall.name \in DOMAIN uniCache /\ lastCall.slot = uniCache[lastCall.name]
    /\ lastCall.kind = "attrib" =>
         lastCall.name \in DOMAIN attrCache /\ lastCall.slot = attrCache[lastCall.name]
    /\ (lastCall.kind # "none" /\ ~Declares(lastCall.prog, lastCall.name)) =>
         lastCall.slot = -1

\* What does hold of the caches: the driver is asked at most once per name and
\* kind, and what a name is cached as never changes afterwards.
CacheQueriedOncePerName ==
    /\ \A key \in DOMAIN glQueries : glQueries[key] = 1
    /\ \A k1, k2 \in DOMAIN glQueries : (k1[1] = k2[1] /\ k1[3] = k2[3]) => k1 = k2
    /\ \A key \in DOMAIN glQueries :
         IF key[1] = "uniform"
           THEN uniCache[key[3]] = GLGetUniformLocation(key[2], key[3])
           ELSE attrCache[key[3]] = GLGetAttribLocation(key[2], key[3])

-----------------------------------------------------------------------------
(* Properties of LoadShaderProgram (SpecShader) *)

\* C2: when LoadShaderProgram has returned, gl.DeleteShader has been called on
\* every shader object the call created, whichever way it returned.
C2_ShadersReleasedOnReturn == lastLoad.shaders \subseteq glDeleted

\* What does hold: once both stages compiled, both shaders are released.
ShadersReleasedAfterCompile ==
    lastLoad.err \in {"nil", "Failed to link the program!"} =>
        lastLoad.shaders \subseteq glDeleted

-----------------------------------------------------------------------------
(* Properties of RenderLoop (Spec, SpecLoopFair) *)

UpdatePart == IF OnUpdate # "nil" THEN <<"update">> ELSE <<>>
RenderPart == IF OnRender # "nil" THEN <<"render">> ELSE <<>>
ExpectedLog == UpdatePart \o RenderPart \o <<"swap", "poll">>

\* C4: within an iteration the events are update (if set), render (if set),
\* swap, poll, in that order; a callback that is set has run once per iteration
\* and a nil callback never.
C4_IterationOrder ==
    /\ pc = "update" => log = <<>>
    /\ pc = "render" => log = UpdatePart
    /\ pc = "swap" => log = UpdatePart \o RenderPart
    /\ pc = "poll" => log = UpdatePart \o RenderPart \o <<"swap">>
    /\ (pc \in {"check", "done"} /\ iter > 0) => log = ExpectedLog
    /\ calls.update = IF OnUpdate = "nil" THEN 0
                      ELSE IF pc = "update" THEN iter - 1 ELSE iter
    /\ calls.render = IF OnRender = "nil" THEN 0
                      ELSE IF pc \in {"update", "render"} THEN iter - 1 ELSE iter

C4_Witness ==
    /\ pc = "check" /\ iter = 2
    /\ OnUpdate = "fn" /\ OnRender = "fn"
    /\ log = <<"update", "render", "swap", "poll">>
    /\ calls = [update |-> 2, render |-> 2]

\* the same with a nil render callback: update, swap and poll are unaffected
C4_WitnessNil ==
    /\ pc = "check" /\ iter = 2
    /\ OnUpdate = "fn" /\ OnRender = "nil"
    /\ log = <<"update", "swap", "poll">>

C5_Safety ==
    /\ closedIter # -1 => (shouldClose /\ iter = closedIter)
    /\ pc = "done" => closedIter # -1
    /\ (closedIter # -1 /\ pc = "done") =>
         /\ calls.update = IF OnUpdate = "nil" THEN 0 ELSE closedIter
         /\ calls.render = IF OnRender = "nil" THEN 0 ELSE closedIter
         /\ closedIter > 0 => log = ExpectedLog
    /\ closedIter = 0 => (calls = [update |-> 0, render |-> 0] /\ log = <<>>)

\* C5: once the should-close flag is set during iteration k, no later iteration
\* starts; when RenderLoop has returned every step of iteration k has run and
\* each set callback has run exactly k times; with the flag set on entry no
\* callback runs; and RenderLoop does return.
C5_Cancellation ==
    /\ []C5_Safety
    /\ (shouldClose /\ pc # "setup") ~> (pc = "done")

\* the flag was set during iteration 2, by a callback or the key handler
C5_Witness ==
    /\ pc = "done" /\ closedIter = 2
    /\ OnUpdate = "fn" /\ OnRender = "fn"
    /\ calls = [update |-> 2, render |-> 2]
    /\ log = ExpectedLog

\* C6: every delta is non-negative and is the sample at the top of the
\* iteration minus the previous sample; the callbacks receive it; after the
\* iteration the stored sample is the iteration's sample, and the deltas add up
\* to the time elapsed since RenderLoop was entered.
C6_FrameDelta ==
    /\ Len(deltas) = iter
    /\ pc # "setup" => Len(samples) = iter + 1
    /\ \A i \in 1..Len(deltas) :
         deltas[i] >= 0 /\ deltas[i] = samples[i + 1] - samples[i]
    /\ pc \in {"update", "render", "swap", "poll"} =>
         /\ loopTime = samples[iter + 1]
         /\ lastRenderTime = samples[iter]
         /\ deltaF = DeltaSeconds(samples[iter + 1] - samples[iter])
    /\ args.update = IF calls.update = 0 THEN NoDelta
                     ELSE DeltaSeconds(samples[calls.update + 1] - samples[calls.update])
    /\ args.render = IF calls.render = 0 THEN NoDelta
                     ELSE DeltaSeconds(samples[calls.render + 1] - samples[calls.render])
    /\ pc \in {"check", "done"} =>
         /\ lastRenderTime = Last(samples)
         /\ SumSeq(deltas) = Last(samples) - samples[1]

C6_Witness ==
    /\ pc = "check" /\ iter = 2
    /\ deltas[1] > 0 /\ deltas[2] > 0 /\ deltas[1] # deltas[2]
    /\ calls = [update |-> 2, render |-> 2]
    /\ args.render = DeltaSeconds(deltas[2])

-----------------------------------------------------------------------------
(* Properties of updateCallback (SpecUpdate) *)

PlaneArgs == <<0, 1, 0, 0>>

Float32Seq(t) == [i \in 1..Len(t) |-> Float32(t[i])]

\* the calls of a frame that has reached position `at`, given the frame's trace
TraceShape(at) ==
    /\ Len(trace) >= 3
    /\ trace[1].op = "Integrate"
    /\ trace[2].op = "CalculateDerivedData"
    /\ trace[3].op = "CopyTransform"
    /\ trace[3].ret = Float32Seq(trace[1].ret)
    /\ cube.Location = SubSeq(trace[3].ret, 1, 3)
    /\ cube.LocalRotation = [W |-> trace[3].ret[4], V |-> SubSeq(trace[3].ret, 5, 7)]
    /\ at = "contacts" => Len(trace) = 3
    /\ at # "contacts" =>
         /\ Len(trace) >= 4
         /\ trace[4].op = "CheckAgainstHalfSpace"
         /\ trace[4].args = PlaneArgs
    /\ at = "resolve" => Len(trace) = 4
    /\ at = "idle" =>
         /\ Len(trace) = IF trace[4].ret[1] = 1 THEN 5 ELSE 4
         /\ Len(trace) = 5 =>
              /\ trace[5].op = "ResolveContacts"
              /\ trace[5].args = <<8 * trace[4].ret[2], trace[4].ret[2], trace[1].args[1]>>

C7_Order == (upc # "setup" /\ frames > 0) => TraceShape(upc)

C7_KeepsFields ==
    upc # "setup" =>
        /\ cube'.Rotation = cube.Rotation
        /\ cube'.Scale = cube.Scale
        /\ cube'.Color = cube.Color

\* C7: a frame's update integrates, recalculates the derived data, copies the
\* integrated position and orientation into Location and LocalRotation, checks
\* against the ground half-space with normal (0,1,0) and offset 0, and resolves
\* exactly when contacts were found, with a budget of 8 per contact; Rotation,
\* Scale and Color are never written.
C7_UpdateStep == []C7_Order /\ [][C7_KeepsFields]_vars

\* a frame that found two contacts and resolved them, after a frame that moved
\* the body
C7_Witness ==
    /\ upc = "idle" /\ frames = 2
    /\ Len(trace) = 5
    /\ trace[5].args[1] = 16
    /\ cube.Location = <<0, 4, 0>>
    /\ trace[1].ret[2] = 3
    /\ cube.Color = <<1, 0, 0, 1>>

\* a frame without contacts: resolution is not invoked
C7_WitnessNoContact ==
    /\ upc = "idle" /\ frames = 1
    /\ Len(trace) = 4
    /\ trace[4].ret = <<0, 2>>

-----------------------------------------------------------------------------
(* Properties of Renderable.Draw (SpecDraw) *)

CmdsWith(op) == {i \in 1..Len(glLog.cmds) : glLog.cmds[i].op = op}

CountIf(op, present) == Cardinality(CmdsWith(op)) = IF present THEN 1 ELSE 0

BindsOf(target, handle) ==
    {i \in CmdsWith("BindBuffer") : glLog.cmds[i].args = <<target, handle>>}

PointersOf(size) ==
    {i \in CmdsWith("VertexAttribPointer") : glLog.cmds[i].args[2] = size}

\* C8: after a Draw, each upload or bind was issued exactly when its cached
\* slot is >= 0, each on its own; and whatever the slots are, the index buffer
\* was bound and one triangle-list draw of FaceCount * 3 indices was issued,
\* and Draw ran to its end.
C8_DrawGuards ==
    glLog.cmds # <<>> =>
      LET mvpSlot   == uniCache["MVP_MATRIX"]
          texSlot   == uniCache["DIFFUSE_TEX"]
          colorSlot == uniCache["DIFFUSE_COLOR"]
          posSlot   == attrCache["VERTEX_POSITION"]
          uvSlot    == attrCache["VERTEX_UV_0"]
          r == glLog.r
      IN /\ CountIf("UniformMatrix4fv", mvpSlot >= 0)
         /\ \A i \in CmdsWith("UniformMatrix4fv") : glLog.cmds[i].args[1] = mvpSlot
         /\ CountIf("ActiveTexture", texSlot >= 0)
         /\ CountIf("BindTexture", texSlot >= 0)
         /\ CountIf("Uniform1i", texSlot >= 0)
         /\ \A i \in CmdsWith("Uniform1i") : glLog.cmds[i].args = <<texSlot, 0>>
         /\ CountIf("Uniform4f", colorSlot >= 0)
         /\ \A i \in CmdsWith("Uniform4f") : glLog.cmds[i].args = <<colorSlot, r.Color>>
         /\ Cardinality(BindsOf("ARRAY_BUFFER", r.VertVBO)) = IF posSlot >= 0 THEN 1 ELSE 0
         /\ Cardinality(PointersOf(3)) = IF posSlot >= 0 THEN 1 ELSE 0
         /\ \A i \in PointersOf(3) : glLog.cmds[i].args[1] = posSlot
         /\ Cardinality(BindsOf("ARRAY_BUFFER", r.UvVBO)) = IF uvSlot >= 0 THEN 1 ELSE 0
         /\ Cardinality(PointersOf(2)) = IF uvSlot >= 0 THEN 1 ELSE 0
         /\ \A i \in PointersOf(2) : glLog.cmds[i].args[1] = uvSlot
         /\ Cardinality(CmdsWith("EnableVertexAttribArray")) =
              (IF posSlot >= 0 THEN 1 ELSE 0) + (IF uvSlot >= 0 THEN 1 ELSE 0)
         /\ Cardinality(BindsOf("ELEMENT_ARRAY_BUFFER", r.ElementsVBO)) = 1
         /\ Cardinality(CmdsWith("DrawElements")) = 1
         /\ \A i \in CmdsWith("DrawElements") :
              /\ glLog.cmds[i].args = <<"TRIANGLES", r.FaceCount * 3>>
              /\ glLog.cmds[i - 1].op = "BindBuffer"
              /\ glLog.cmds[i - 1].args = <<"ELEMENT_ARRAY_BUFFER", r.ElementsVBO>>
         /\ Last(glLog.cmds).op = "BindVertexArray"
         /\ Last(glLog.cmds).args = <<0>>

\* a Draw with the matrix, color and position slots present, one of them slot
\* 0, and the texture and UV slots absent
C8_Witness ==
    /\ glLog.cmds # <<>>
    /\ glLog.r.FaceCount = 12
    /\ uniCache["MVP_MATRIX"] >= 0
    /\ uniCache["DIFFUSE_TEX"] = -1
    /\ uniCache["DIFFUSE_COLOR"] = 0
    /\ attrCache["VERTEX_POSITION"] >= 0
    /\ attrCache["VERTEX_UV_0"] = -1
    /\ Len(glLog.cmds) = 10

\* a Draw with no slot present at all
C8_WitnessNoSlots ==
    /\ glLog.cmds # <<>>
    /\ \A n \in UniformNames : uniCache[n] = -1
    /\ \A n \in AttribNames : attrCache[n] = -1
    /\ Len(glLog.cmds) = 5

-----------------------------------------------------------------------------
(* Properties of CreateCube (SpecCube) *)

VertexCount(r) == Len(glBuffers[r.VertVBO].data) \div 3

\* C9: a cube has 24 vertices (72 position, 48 UV and 72 normal floats) and 36
\* indices, all below 24, in 12 triangles; FaceCount * 3 is the number of
\* indices uploaded, so a Draw of it reads only indices that exist, and they
\* name vertices that exist.
C9_CubeMesh ==
    /\ cube.Vao # 0 =>
         LET verts   == glBuffers[cube.VertVBO]
             uvs     == glBuffers[cube.UvVBO]
             normals == glBuffers[cube.NormsVBO]
             indexes == glBuffers[cube.ElementsVBO]
         IN /\ Len(verts.data) = 72 /\ verts.size = 288
            /\ Len(uvs.data) = 48 /\ uvs.size = 192
            /\ Len(normals.data) = 72 /\ normals.size = 288
            /\ Len(indexes.data) = 36 /\ indexes.size = 144
            /\ VertexCount(cube) = 24
            /\ \A i \in 1..Len(indexes.data) :
                 indexes.data[i] >= 0 /\ indexes.data[i] < 24
            /\ cube.FaceCount = 12
            /\ cube.FaceCount * 3 = Len(indexes.data)
            /\ Cardinality({cube.VertVBO, cube.UvVBO, cube.NormsVBO, cube.ElementsVBO}) = 4
    /\ (glLog.cmds # <<>> /\ glLog.r.Vao # 0) =>
         \A i \in CmdsWith("DrawElements") :
            LET count == glLog.cmds[i].args[2]
                indexes == glBuffers[glLog.r.ElementsVBO].data
            IN /\ count >= 0 /\ count <= Len(indexes)
               /\ \A k \in 1..count :
                    indexes[k] >= 0 /\ indexes[k] < VertexCount(glLog.r)

\* the second cube, made from corners whose minimum exceeds the maximum, drawn
C9_Witness ==
    /\ cube.Vao = 2
    /\ glBuffers[cube.VertVBO].data[1] = -2
    /\ glBuffers[cube.VertVBO].data[4] = 2
    /\ glLog.r = cube
    /\ glLog.cmds # <<>>

-----------------------------------------------------------------------------
(* Properties of GetTransformMat4 (SpecTransform) *)

\* a matrix applied to a homogeneous column vector
Apply(m, v) ==
    [i \in 1..4 |-> m[i][1] * v[1] + m[i][2] * v[2] + m[i][3] * v[3] + m[i][4] * v[4]]

ScaleVec(sc, v) == <<sc[1] * v[1], sc[2] * v[2], sc[3] * v[3], v[4]>>

TranslateVec(loc, v) ==
    <<v[1] + loc[1] * v[4], v[2] + loc[2] * v[4], v[3] + loc[3] * v[4], v[4]>>

\* what the transform does to a vector, one step at a time: scale, rotate
\* locally, translate, rotate in world space
StepByStep(r, v) ==
    Apply(QuatMat4(r.Rotation),
          TranslateVec(r.Location,
                       Apply(QuatMat4(r.LocalRotation), ScaleVec(r.Scale, v))))

Probes == {<<0, 0, 0, 1>>, <<1, 0, 0, 1>>, <<0, 1, 0, 1>>, <<0, 0, 1, 1>>, <<1, 2, 3, 0>>}

IdentityRotations(r) ==
    QuatMat4(r.Rotation) = Ident4 /\ QuatMat4(r.LocalRotation) = Ident4

C10_WitnessTranslate ==
    /\ IdentityRotations(cube) /\ cube.Scale = <<1, 1, 1>>
    /\ cube.Location = <<MaxCoord, 0, 0>>
    /\ GetTransformMat4(cube) = Translate3D(MaxCoord, 0, 0)

====
